---- MODULE Spec2Model ----
(***************************************************************************)
(* Model of src/app.py: the pump/compressor efficiency dashboard.          *)
(*                                                                         *)
(* Numbers.  Sensor values (pressures, temperatures, flow, power) are      *)
(* integers counting tenths of their unit: 25 is 2.5 bar, 500 is 50.0 kW.  *)
(* A float that is the result of a division is a pair [num, den] with      *)
(* den >= 0 in lowest terms; den = 0 encodes the IEEE results of a         *)
(* division by zero: num = 1 is +inf, num = -1 is -inf, num = 0 is nan.   *)
(* Arithmetic is exact on this grid (binary rounding is not modelled).     *)
(* Timestamps are integers counting minutes.  Strings are strings.         *)
(***************************************************************************)
EXTENDS Integers, Sequences, FiniteSets, TLC

VARIABLES
    now,            \* the clock reading of the latest script run (minutes)
    data,           \* the DataFrame `data` of the latest script run
    selected,       \* slider "slider_recent_records"
    inlet_p,        \* number_input "inlet_pressure"
    outlet_p,       \* number_input "outlet_pressure"
    flow,           \* number_input "flow_rate"
    power,          \* number_input "power"
    calc,           \* what the "Calculate Efficiency" block wrote in the latest run
    user_question,  \* text_input "qa_input"
    focus,          \* <<row>> handed to compressor_efficiency_prompt, <<>> if not called
    answer          \* <<string>> returned by compressor_efficiency_prompt, <<>> if not called

vars == <<now, data, selected, inlet_p, outlet_p, flow, power, calc,
          user_question, focus, answer>>

-----------------------------------------------------------------------------
(* Bounds of the model *)

\* the clock takes the values 0..MaxClock
MaxClock == 1
\* a generated question is made of at most MaxWords vocabulary tokens
MaxWords == 2

-----------------------------------------------------------------------------
(* Program constants (tenths of the unit, see above) *)

\* generate_dummy_data(n=100)
DefaultN == 100
\* timedelta(minutes=i * 10)
MinutesPerRow == 10
\* df["Efficiency"] < 0.3
CriticalEfficiency == 3
\* df["Inlet Pressure (bar)"] < 2.2
CriticalInletPressure == 22
\* df["Power (kW)"] > 60
CriticalPower == 600
\* explain_efficiency: row['Efficiency'] < 0.3
VeryLowEfficiency == 3
\* explain_efficiency: row['Efficiency'] < 0.5
LowEfficiency == 5
\* explain_efficiency: row['Efficiency'] > 2.0
HighEfficiency == 20
\* compressor_efficiency_prompt, why/cause: row["Efficiency"] < 0.5
PromptLowEfficiency == 5
\* compressor_efficiency_prompt, pump/compressor: row['Efficiency'] < 1.0
PumpEfficiency == 10
\* .head(50)
HeadRows == 50
\* .tail(50)
TailRows == 50
\* manual block: efficiency < 0.3
ManualCriticalEfficiency == 3
\* st.slider(..., 1, 100, 10): the initial value
SliderDefault == 10
\* st.number_input(..., value=2.5), value=6.0, value=10.0, value=50.0
InletDefault == 25
OutletDefault == 60
FlowDefault == 100
PowerDefault == 500

-----------------------------------------------------------------------------
(* Floats *)

Abs(x) == IF x < 0 THEN -x ELSE x

Sign(x) == IF x > 0 THEN 1 ELSE IF x < 0 THEN -1 ELSE 0

Min(a, b) == IF a < b THEN a ELSE b

Max(a, b) == IF a > b THEN a ELSE b

RECURSIVE GCD(_, _)
GCD(a, b) == IF b = 0 THEN a ELSE GCD(b, a % b)

\* the float n / d (n and d integers): IEEE division, by zero included
Frac(n, d) ==
    IF d = 0 THEN [num |-> Sign(n), den |-> 0]
    ELSE LET g == GCD(Abs(n), Abs(d))
             s == IF d < 0 THEN -1 ELSE 1
         IN  [num |-> (s * n) \div g, den |-> (s * d) \div g]

\* a sensor value of x tenths, as a float
Tenths(x) == Frac(x, 10)

\* e < t/10 and e > t/10 as IEEE compares them: every comparison with nan is
\* false, -inf is below and +inf above every finite number
Lt(e, t) == IF e.den = 0 THEN e.num < 0 ELSE e.num * 10 < t * e.den

Gt(e, t) == IF e.den = 0 THEN e.num > 0 ELSE e.num * 10 > t * e.den

IsFinite(e) == e.den # 0

\* n / d (n >= 0, d > 0) rounded to the nearest integer, ties to even
RoundHalfEven(n, d) ==
    LET q == n \div d
        r == n % d
    IN  IF 2 * r < d THEN q
        ELSE IF 2 * r > d THEN q + 1
        ELSE IF q % 2 = 0 THEN q ELSE q + 1

\* f"{e:.2f}"
Fmt2f(e) ==
    IF e.den = 0
    THEN (IF e.num > 0 THEN "inf" ELSE IF e.num < 0 THEN "-inf" ELSE "nan")
    ELSE LET h == RoundHalfEven(Abs(e.num) * 100, e.den)
         IN  (IF e.num < 0 THEN "-" ELSE "") \o ToString(h \div 100) \o "."
             \o ToString((h % 100) \div 10) \o ToString(h % 10)

-----------------------------------------------------------------------------
(* generate_dummy_data *)

\* line 16: (flow_rate * (outlet_pressure - inlet_pressure)) / power_consumed
Efficiency(flow_rate, outlet_pressure, inlet_pressure, power_consumed) ==
    Frac(flow_rate * (outlet_pressure - inlet_pressure), 10 * power_consumed)

\* the rule of lines 30-33 with <= and >= in place of < and >
CriticalFlagLenient(efficiency, inlet_pressure, power_consumed) ==
    IF \/ ~Gt(efficiency, CriticalEfficiency)
       \/ inlet_pressure <= CriticalInletPressure
       \/ power_consumed >= CriticalPower
    THEN "CRITICAL" ELSE "OK"

\* the rule of lines 30-33 without its efficiency trigger
CriticalFlagNoEfficiency(efficiency, inlet_pressure, power_consumed) ==
    IF \/ inlet_pressure < CriticalInletPressure
       \/ power_consumed > CriticalPower
    THEN "CRITICAL" ELSE "OK"

\* lines 30-33: np.where(... | ... | ..., "CRITICAL", "OK")
CriticalFlag(efficiency, inlet_pressure, power_consumed) ==
    IF \/ Lt(efficiency, CriticalEfficiency)
       \/ inlet_pressure < CriticalInletPressure
       \/ power_consumed > CriticalPower
    THEN "CRITICAL" ELSE "OK"

\* the row of index i (0-based) of the DataFrame: clock is what datetime.now()
\* returned for it, s the values np.random.normal drew for it
GeneratedRow(i, clock, s) ==
    LET efficiency == Efficiency(s.flow, s.outlet, s.inlet, s.power)
    IN  [Timestamp      |-> clock - i * MinutesPerRow,
         InletPressure  |-> s.inlet,
         OutletPressure |-> s.outlet,
         InletTemp      |-> s.itemp,
         OutletTemp     |-> s.otemp,
         FlowRate       |-> s.flow,
         Power          |-> s.power,
         Efficiency     |-> efficiency,
         CriticalFlag   |-> CriticalFlag(efficiency, s.inlet, s.power)]

\* generate_dummy_data(n): clocks[i+1] and draws[i+1] belong to row i
generate_dummy_data(n, clocks, draws) ==
    [i \in 1..n |-> GeneratedRow(i - 1, clocks[i], draws[i])]

-----------------------------------------------------------------------------
(* explain_efficiency *)

\* lines 37-45 with every boundary in the bucket below it
explain_efficiency_inclusive(row) ==
    IF ~Gt(row.Efficiency, VeryLowEfficiency)
    THEN "CRITICAL: Very low efficiency. Immediate investigation required."
    ELSE IF ~Gt(row.Efficiency, LowEfficiency)
    THEN "Low efficiency. Possible issues with pressure delta or power."
    ELSE IF ~Lt(row.Efficiency, HighEfficiency)
    THEN "High efficiency. System optimal."
    ELSE "Moderate efficiency. Acceptable range."

\* lines 37-45
explain_efficiency(row) ==
    IF Lt(row.Efficiency, VeryLowEfficiency)
    THEN "CRITICAL: Very low efficiency. Immediate investigation required."
    ELSE IF Lt(row.Efficiency, LowEfficiency)
    THEN "Low efficiency. Possible issues with pressure delta or power."
    ELSE IF Gt(row.Efficiency, HighEfficiency)
    THEN "High efficiency. System optimal."
    ELSE "Moderate efficiency. Acceptable range."

\* line 105: data['LLM Explanation'] = data.apply(explain_efficiency, axis=1)
WithExplanation(df) ==
    [i \in DOMAIN df |->
        df[i] @@ [LLMExplanation |-> explain_efficiency(df[i])]]

-----------------------------------------------------------------------------
(* Strings and DataFrames *)

LowerChar(c) ==
    CASE c = "A" -> "a" [] c = "B" -> "b" [] c = "C" -> "c" [] c = "D" -> "d"
      [] c = "E" -> "e" [] c = "F" -> "f" [] c = "G" -> "g" [] c = "H" -> "h"
      [] c = "I" -> "i" [] c = "J" -> "j" [] c = "K" -> "k" [] c = "L" -> "l"
      [] c = "M" -> "m" [] c = "N" -> "n" [] c = "O" -> "o" [] c = "P" -> "p"
      [] c = "Q" -> "q" [] c = "R" -> "r" [] c = "S" -> "s" [] c = "T" -> "t"
      [] c = "U" -> "u" [] c = "V" -> "v" [] c = "W" -> "w" [] c = "X" -> "x"
      [] c = "Y" -> "y" [] c = "Z" -> "z" [] OTHER -> c

\* str.lower()
RECURSIVE lower(_)
lower(s) == IF s = "" THEN "" ELSE LowerChar(SubSeq(s, 1, 1)) \o lower(Tail(s))

\* `kw in q` on strings: substring containment
In(kw, q) ==
    \E i \in 1..(Len(q) - Len(kw) + 1) : SubSeq(q, i, i + Len(kw) - 1) = kw

\* DataFrame.head(k) and DataFrame.tail(k)
head(df, k) == SubSeq(df, 1, Min(k, Len(df)))

tail(df, k) == SubSeq(df, Max(1, Len(df) - k + 1), Len(df))

\* df[['Critical Flag', "Timestamp"]]
FlagAndTimestamp(df) ==
    [i \in DOMAIN df |->
        [CriticalFlag |-> df[i].CriticalFlag, Timestamp |-> df[i].Timestamp]]

\* list(rows[rows["Critical Flag"] == 'CRITICAL']["Timestamp"].reset_index(drop=True))
CriticalTimestamps(rows) ==
    LET kept == SelectSeq(rows, LAMBDA r : r.CriticalFlag = "CRITICAL")
    IN  [i \in DOMAIN kept |-> kept[i].Timestamp]

\* "CRITICAL" in list(rows['Critical Flag'])
HasCritical(rows) == \E i \in DOMAIN rows : rows[i].CriticalFlag = "CRITICAL"

\* str() of a pandas Timestamp, and its repr() inside a list
StrTimestamp(t) == ToString(t)

ReprTimestamp(t) == "Timestamp('" \o StrTimestamp(t) \o "')"

RECURSIVE JoinRepr(_)
JoinRepr(ts) ==
    IF ts = <<>> THEN ""
    ELSE IF Len(ts) = 1 THEN ReprTimestamp(ts[1])
    ELSE ReprTimestamp(ts[1]) \o ", " \o JoinRepr(Tail(ts))

\* str() of a list of Timestamps
StrList(ts) == "[" \o JoinRepr(ts) \o "]"

-----------------------------------------------------------------------------
(* compressor_efficiency_prompt *)

\* the window the prompt of line 167 asks for
first10row_60(df) == head(FlagAndTimestamp(df), 60)

\* line 58
first10row(df) == head(FlagAndTimestamp(df), HeadRows)

\* line 69
last10row(df) == tail(FlagAndTimestamp(df), TailRows)

\* lines 58-67
FirstBranch(df) ==
    IF HasCritical(first10row(df))
    THEN "The pump/compressor status was critical at "
         \o StrList(CriticalTimestamps(first10row(df))) \o " from top 50 row."
    ELSE "Not found any critical in the data for pump/compressor."

\* lines 69-78
LastBranch(df) ==
    IF HasCritical(last10row(df))
    THEN "The pump/compressor status was critical at "
         \o StrList(CriticalTimestamps(last10row(df))) \o " from last 50 row."
    ELSE "Not found any critical in the data for pump/compressor."

\* lines 53-56
WhyBranch(row) ==
    IF Lt(row.Efficiency, PromptLowEfficiency)
    THEN "Efficiency is low likely due to small pressure difference ("
         \o Fmt2f(Tenths(row.OutletPressure)) \o "-"
         \o Fmt2f(Tenths(row.InletPressure)) \o ") or high power usage ("
         \o Fmt2f(Tenths(row.Power)) \o " kW)."
    ELSE "Efficiency is within normal range. No cause for concern."

\* a function that falls off its last elif returns None, which st.write
\* renders as nothing
FallbackNone == ""

\* lines 94-95
Fallback == "Please ask about efficiency, pressure, flow, power, or status."

\* the elif chain with the critical/alert test moved ahead of why/cause
compressor_efficiency_prompt_reordered(question, row, df) ==
    LET q == lower(question)
    IN  IF In("efficiency", q) /\ In("what", q)
        THEN "The current efficiency is " \o Fmt2f(row.Efficiency) \o "."
        ELSE IF In("critical", q) \/ In("alert", q)
        THEN "System status: " \o row.CriticalFlag \o "."
        ELSE IF In("why", q) \/ In("cause", q) THEN WhyBranch(row)
        ELSE IF In("first", q) THEN FirstBranch(df)
        ELSE IF In("last", q) THEN LastBranch(df)
        ELSE IF In("pressure", q)
        THEN "Inlet Pressure: " \o Fmt2f(Tenths(row.InletPressure))
             \o " bar, Outlet Pressure: " \o Fmt2f(Tenths(row.OutletPressure))
             \o " bar."
        ELSE IF In("flow", q)
        THEN "Flow rate is " \o Fmt2f(Tenths(row.FlowRate)) \o " m3/h."
        ELSE IF In("power", q)
        THEN "Power consumption is " \o Fmt2f(Tenths(row.Power)) \o " kW."
        ELSE IF In("time", q)
        THEN "The record timestamp is " \o StrTimestamp(row.Timestamp) \o "."
        ELSE IF In("pump", q) \/ In("compressor", q)
        THEN "This system operates as a "
             \o (IF Lt(row.Efficiency, PumpEfficiency) THEN "pump" ELSE "compressor")
             \o "."
        ELSE IF In("improve", q)
        THEN "Reduce power usage or increase pressure delta to improve efficiency."
        ELSE Fallback

\* lines 48-95
compressor_efficiency_prompt(question, row, df) ==
    LET q == lower(question)
    IN  IF In("efficiency", q) /\ In("what", q)
        THEN "The current efficiency is " \o Fmt2f(row.Efficiency) \o "."
        ELSE IF In("why", q) \/ In("cause", q) THEN WhyBranch(row)
        ELSE IF In("first", q) THEN FirstBranch(df)
        ELSE IF In("last", q) THEN LastBranch(df)
        ELSE IF In("pressure", q)
        THEN "Inlet Pressure: " \o Fmt2f(Tenths(row.InletPressure))
             \o " bar, Outlet Pressure: " \o Fmt2f(Tenths(row.OutletPressure))
             \o " bar."
        ELSE IF In("flow", q)
        THEN "Flow rate is " \o Fmt2f(Tenths(row.FlowRate)) \o " m3/h."
        ELSE IF In("power", q)
        THEN "Power consumption is " \o Fmt2f(Tenths(row.Power)) \o " kW."
        ELSE IF In("time", q)
        THEN "The record timestamp is " \o StrTimestamp(row.Timestamp) \o "."
        ELSE IF In("critical", q) \/ In("alert", q)
        THEN "System status: " \o row.CriticalFlag \o "."
        ELSE IF In("pump", q) \/ In("compressor", q)
        THEN "This system operates as a "
             \o (IF Lt(row.Efficiency, PumpEfficiency) THEN "pump" ELSE "compressor")
             \o "."
        ELSE IF In("improve", q)
        THEN "Reduce power usage or increase pressure delta to improve efficiency."
        ELSE Fallback

-----------------------------------------------------------------------------
(* The "Calculate Efficiency" block, lines 137-141 *)

\* line 138: (flow * (outlet_p - inlet_p)) / power if power else 0
ManualEfficiency(fl, outp, inp, pw) ==
    IF pw # 0 THEN Efficiency(fl, outp, inp, pw) ELSE Frac(0, 1)

\* line 139
ManualFlag(efficiency) ==
    IF Lt(efficiency, ManualCriticalEfficiency) THEN "CRITICAL" ELSE "OK"

\* lines 140-141: the two strings st.write shows
Calculate(fl, outp, inp, pw) ==
    LET efficiency == ManualEfficiency(fl, outp, inp, pw)
    IN  << "Calculated Efficiency: " \o Fmt2f(efficiency)
              \o " (" \o ManualFlag(efficiency) \o ")",
           explain_efficiency([Efficiency |-> efficiency]) >>

-----------------------------------------------------------------------------
(* What np.random.normal and datetime.now() may return *)

\* one row's draws: inlet_pressure, outlet_pressure, inlet_temp, outlet_temp,
\* flow_rate, power_consumed
Draw(inlet, outlet, fl, pw) ==
    [inlet |-> inlet, outlet |-> outlet, itemp |-> 250, otemp |-> 800,
     flow |-> fl, power |-> pw]

\* the means of the six distributions: efficiency 0.70
Nominal == Draw(25, 60, 100, 500)

\* inlet pressure 2.0 bar, efficiency 0.80
LowInlet == Draw(20, 60, 100, 500)

\* power 0.0 kW
ZeroPower == Draw(25, 60, 100, 0)

\* rows exercising every threshold:
\*    1  efficiency 0.70
\*    2  efficiency 0.30 with inlet 2.2 bar and power 60 kW
\*    3  efficiency 0.50
\*    4  efficiency 2.00
\*    5  efficiency 0.25
\*    6  efficiency 0.33 with inlet 2.0 bar and power 61 kW
\*    7  efficiency 0.80 with inlet 2.0 bar
\*    8  efficiency 3.50 with inlet 2.0 bar
\*    9  power 0, positive numerator
\*   10  power 0, zero numerator
\*   11  power 0, negative numerator
\*   12  efficiency 0.57 with power 61 kW
\*   13  efficiency 0.70 with inlet 2.0 bar
Showcase ==
    << Nominal, Draw(22, 40, 100, 600), Draw(25, 55, 50, 300),
       Draw(25, 55, 200, 300), Draw(25, 40, 50, 300), Draw(20, 40, 100, 610),
       LowInlet, Draw(20, 55, 100, 100), ZeroPower, Draw(20, 20, 100, 0),
       Draw(25, 20, 100, 0), Draw(25, 60, 100, 610), Draw(20, 55, 100, 500) >>

WideDraws ==
    { Draw(i, o, f, p) : i \in {20, 22, 25}, o \in {20, 40, 55, 60},
                         f \in {50, 100, 200}, p \in {0, 100, 300, 500, 600, 610} }

Clocks == 0..MaxClock

\* the n clock readings of the list comprehension of line 9: all in the minute
\* t (k = 0), or the minute turns before row k is built
ClockReads(n, t, k) == [i \in 1..n |-> IF k > 0 /\ i >= k THEN t + 1 ELSE t]

\* n draws: s at the rows of `at`, bg elsewhere
DrawsWith(n, bg, at, s) == [i \in 1..n |-> IF i \in at THEN s ELSE bg]

\* n draws running through Showcase
DrawsMixed(n) == [i \in 1..n |-> Showcase[((i - 1) % Len(Showcase)) + 1]]

\* lines 104-105
Script(n, clocks, draws) == WithExplanation(generate_dummy_data(n, clocks, draws))

\* the DataFrames the session model draws from, by the clock of the run
SessionData ==
    [t \in Clocks |->
        { Script(DefaultN, ClockReads(DefaultN, t, k),
                 DrawsWith(DefaultN, Nominal, {p}, s)) :
            k \in {0, 51}, p \in {1}, s \in {Nominal, ZeroPower} }]

\* the DataFrames the page-load model draws from
WideData ==
    [t \in Clocks |->
        { Script(DefaultN, ClockReads(DefaultN, t, 0),
                 DrawsWith(DefaultN, Nominal, {p}, s)) :
            p \in {1}, s \in WideDraws }
        \cup { Script(DefaultN, ClockReads(DefaultN, t, k), DrawsMixed(DefaultN)) :
                 k \in {0, 51} }]

-----------------------------------------------------------------------------
(* The script, lines 98-170.  Streamlit executes it top to bottom when a     *)
(* session starts and again after every widget interaction; the widgets     *)
(* keep their values between runs (a button is True only in the run its     *)
(* click starts).  The script caches nothing (no st.cache_data, no          *)
(* st.session_state), so every run evaluates line 104 anew.  The table,     *)
(* the plot, the summary counts and the CSV bytes are renderings of `data`  *)
(* and are not kept as separate variables.                                  *)

\* DataFrame.iloc[DefaultN - 1 - i]
iloc_from_end(df, i) == df[Len(df) - i]

\* DataFrame.iloc[i]
iloc(df, i) == df[i + 1]

SliderValues == {SliderDefault, 100}

InletValues == {20, InletDefault}

OutletValues == {25, OutletDefault}

FlowValues == {0, FlowDefault}

PowerValues == {0, PowerDefault}

\* prompts of lines 156-168, and the empty text
TypedQuestions ==
    { "", "What is the efficiency of the compressor?",
      "Why is the efficiency low?",
      "Tell me first 60 row where status is critical?" }

\* one run of the script with the widget values of the next state; button is
\* what st.button returns in this run; pool is what the generator may return
RunScript(button, pool) ==
    /\ now' \in { t \in Clocks : t >= now }
    /\ data' \in pool[now']
    /\ calc' = IF button THEN Calculate(flow', outlet_p', inlet_p', power') ELSE <<>>
    /\ focus' = IF user_question' # "" THEN << iloc(data', 0) >> ELSE <<>>
    /\ answer' = IF user_question' # ""
                 THEN << compressor_efficiency_prompt(user_question',
                                                      iloc(data', 0), data') >>
                 ELSE <<>>

\* a session before its first run: every widget at its default, nothing shown
Init ==
    /\ now = 0
    /\ data = <<>>
    /\ selected = SliderDefault
    /\ inlet_p = InletDefault
    /\ outlet_p = OutletDefault
    /\ flow = FlowDefault
    /\ power = PowerDefault
    /\ calc = <<>>
    /\ user_question = ""
    /\ focus = <<>>
    /\ answer = <<>>

\* the first run of the session
FirstRun ==
    /\ data = <<>>
    /\ UNCHANGED <<selected, inlet_p, outlet_p, flow, power, user_question>>
    /\ RunScript(FALSE, SessionData)

\* the user moves the slider
MoveSlider ==
    /\ data # <<>>
    /\ \E v \in SliderValues \ {selected} : selected' = v
    /\ UNCHANGED <<inlet_p, outlet_p, flow, power, user_question>>
    /\ RunScript(FALSE, SessionData)

\* the user edits one of the four manual inputs
SetInletPressure ==
    /\ data # <<>>
    /\ \E v \in InletValues \ {inlet_p} : inlet_p' = v
    /\ UNCHANGED <<selected, outlet_p, flow, power, user_question>>
    /\ RunScript(FALSE, SessionData)

SetOutletPressure ==
    /\ data # <<>>
    /\ \E v \in OutletValues \ {outlet_p} : outlet_p' = v
    /\ UNCHANGED <<selected, inlet_p, flow, power, user_question>>
    /\ RunScript(FALSE, SessionData)

SetFlowRate ==
    /\ data # <<>>
    /\ \E v \in FlowValues \ {flow} : flow' = v
    /\ UNCHANGED <<selected, inlet_p, outlet_p, power, user_question>>
    /\ RunScript(FALSE, SessionData)

SetPower ==
    /\ data # <<>>
    /\ \E v \in PowerValues \ {power} : power' = v
    /\ UNCHANGED <<selected, inlet_p, outlet_p, flow, user_question>>
    /\ RunScript(FALSE, SessionData)

\* the user presses "Calculate Efficiency"
ClickCalculate ==
    /\ data # <<>>
    /\ UNCHANGED <<selected, inlet_p, outlet_p, flow, power, user_question>>
    /\ RunScript(TRUE, SessionData)

\* the user submits another text in the question box (or clears it)
SubmitQuestion ==
    /\ data # <<>>
    /\ \E q \in TypedQuestions \ {user_question} : user_question' = q
    /\ UNCHANGED <<selected, inlet_p, outlet_p, flow, power>>
    /\ RunScript(FALSE, SessionData)

\* the user presses "Download Data as CSV": the browser saves the bytes of the
\* run on screen, then the script runs again
ClickDownload ==
    /\ data # <<>>
    /\ UNCHANGED <<selected, inlet_p, outlet_p, flow, power, user_question>>
    /\ RunScript(FALSE, SessionData)

Next ==
    \/ FirstRun
    \/ MoveSlider
    \/ SetInletPressure
    \/ SetOutletPressure
    \/ SetFlowRate
    \/ SetPower
    \/ ClickCalculate
    \/ SubmitQuestion
    \/ ClickDownload

Spec == Init /\ [][Next]_vars

-----------------------------------------------------------------------------
(* Page loads: each one a new session, over the wide range of draws *)

\* the run of a page load: the first of a session or, after a reload of the
\* page, the first of the next, with every widget back at its default
LoadPage ==
    /\ selected' = SliderDefault
    /\ inlet_p' = InletDefault
    /\ outlet_p' = OutletDefault
    /\ flow' = FlowDefault
    /\ power' = PowerDefault
    /\ user_question' = ""
    /\ RunScript(FALSE, WideData)

NextGen == LoadPage

SpecGen == Init /\ [][NextGen]_vars

-----------------------------------------------------------------------------
(* compressor_efficiency_prompt as a function of its three arguments *)

\* the prompts of lines 156-168
SamplePrompts ==
    { "What is the efficiency of the compressor?",
      "Why is the efficiency low?",
      "What are the inlet and outlet pressures?",
      "What is the power consumption?",
      "What is the flow rate?",
      "What time was this data recorded?",
      "Is the system in a critical state?",
      "How to improve pump performance?",
      "What is the status of the pump?",
      "Why is there a critical flag?",
      "Tell me first 60 row where status is critical?" }

Vocabulary ==
    { "What ", "efficiency ", "w", "hy ", "WHY ", "because ", "First ", "last ",
      "pressure ", "overflow ", "powerful ", "sometimes ", "Critical ", "alert ",
      "pump ", "compressor ", "improve ", "hello " }

\* the texts made of at most k tokens of Vocabulary
RECURSIVE Phrases(_)
Phrases(k) ==
    IF k = 0 THEN {""}
    ELSE LET P == Phrases(k - 1) IN P \cup { p \o w : p \in P, w \in Vocabulary }

Questions == Phrases(MaxWords) \cup SamplePrompts \cup {"why is efficiency critical"}

WindowQuestions ==
    { "first", "Tell me first 60 row where status is critical?", "LAST",
      "the last alerts" }

\* rows of efficiency 0.70, 0.25, 2.00 and inf
PromptRows ==
    { iloc(Script(1, <<0>>, <<s>>), 0) :
        s \in {Nominal, Draw(25, 40, 50, 300), Draw(25, 55, 200, 300), ZeroPower} }

SmallFrames ==
    { Script(3, ClockReads(3, 0, 0), DrawsWith(3, Nominal, at, LowInlet)) :
        at \in {{}, {2}} }

\* DataFrames of 0, 3, 50, 51 and 100 rows, CRITICAL at any of the rows 1, 3,
\* 50, 51 and 100 they have
WindowFrames ==
    UNION { { Script(n, ClockReads(n, 0, 0), DrawsWith(n, Nominal, at, LowInlet)) :
                at \in SUBSET ({1, 3, 50, 51, 100} \cap 1..n) } :
            n \in {0, 3, 50, 51, 100} }

InitPrompt ==
    /\ \/ /\ user_question \in Questions
          /\ data \in SmallFrames
          /\ focus \in { <<r>> : r \in PromptRows }
       \/ /\ user_question \in WindowQuestions
          /\ data \in WindowFrames
          /\ focus \in { <<r>> : r \in PromptRows }
    /\ now = 0
    /\ selected = SliderDefault
    /\ inlet_p = InletDefault
    /\ outlet_p = OutletDefault
    /\ flow = FlowDefault
    /\ power = PowerDefault
    /\ calc = <<>>
    /\ answer = <<>>

\* one call of the function on the arguments drawn
CallPrompt ==
    /\ answer = <<>>
    /\ answer' = << compressor_efficiency_prompt(user_question, focus[1], data) >>
    /\ UNCHANGED <<now, data, selected, inlet_p, outlet_p, flow, power, calc,
                   user_question, focus>>

NextPrompt == CallPrompt

SpecPrompt == InitPrompt /\ [][NextPrompt]_vars

-----------------------------------------------------------------------------
(* Properties, and the vocabulary they are stated in *)

CriticalText == "CRITICAL: Very low efficiency. Immediate investigation required."

LowText == "Low efficiency. Possible issues with pressure delta or power."

HighText == "High efficiency. System optimal."

ModerateText == "Moderate efficiency. Acceptable range."

FallbackText == "Please ask about efficiency, pressure, flow, power, or status."

NotFoundText == "Not found any critical in the data for pump/compressor."

\* e >= t/10 and e <= t/10 in IEEE arithmetic
Ge(e, t) == IF e.den = 0 THEN e.num > 0 ELSE e.num * 10 >= t * e.den

Le(e, t) == IF e.den = 0 THEN e.num < 0 ELSE e.num * 10 <= t * e.den

StartsWith(s, p) == Len(s) >= Len(p) /\ SubSeq(s, 1, Len(p)) = p

EndsWith(s, p) == Len(s) >= Len(p) /\ SubSeq(s, Len(s) - Len(p) + 1, Len(s)) = p

\* the three triggers of the Dataset classification rule
Triggered(e, inlet, pw) == Lt(e, 3) \/ inlet < 22 \/ pw > 600

\* C1: every Reading of the generated Dataset has status CRITICAL iff
\* efficiency < 0.3 or inlet_pressure < 2.2 or power > 60, and OK otherwise;
\* a Reading with efficiency exactly 0.3, inlet_pressure exactly 2.2 and power
\* exactly 60 is OK.
C1_StatusRule ==
    \A i \in DOMAIN data :
        LET r == data[i]
        IN  /\ r.CriticalFlag \in {"CRITICAL", "OK"}
            /\ r.CriticalFlag = "CRITICAL"
                  <=> Triggered(r.Efficiency, r.InletPressure, r.Power)
            /\ ( /\ r.Efficiency = [num |-> 3, den |-> 10]
                 /\ r.InletPressure = 22
                 /\ r.Power = 600 ) => r.CriticalFlag = "OK"

\* a Dataset with a Reading on all three boundaries that is OK, and Readings
\* that are CRITICAL by efficiency alone, by inlet pressure alone and by power
\* alone
C1_Witness ==
    /\ \E i \in DOMAIN data :
          /\ data[i].Efficiency = [num |-> 3, den |-> 10]
          /\ data[i].InletPressure = 22
          /\ data[i].Power = 600
          /\ data[i].CriticalFlag = "OK"
    /\ \E i \in DOMAIN data :
          /\ Lt(data[i].Efficiency, 3)
          /\ data[i].InletPressure >= 22 /\ data[i].Power <= 600
          /\ data[i].CriticalFlag = "CRITICAL"
    /\ \E i \in DOMAIN data :
          /\ data[i].InletPressure < 22
          /\ Ge(data[i].Efficiency, 3) /\ data[i].Power <= 600
          /\ data[i].CriticalFlag = "CRITICAL"
    /\ \E i \in DOMAIN data :
          /\ data[i].Power > 600
          /\ Ge(data[i].Efficiency, 3) /\ data[i].InletPressure >= 22
          /\ data[i].CriticalFlag = "CRITICAL"

\* the efficiency the manual block is to show: the formula, 0 when power is 0
ManualExpected == IF power = 0 THEN [num |-> 0, den |-> 1]
                  ELSE Frac(flow * (outlet_p - inlet_p), 10 * power)

\* C2: the manual calculation labels its input CRITICAL iff
\* efficiency < 0.3 or inlet_pressure < 2.2 or power > 60, as the Dataset
\* classification does (inlet 2.0, outlet 6.0, flow 10, power 50 is CRITICAL).
C2_ManualSameStatus ==
    calc # <<>> =>
        IF Triggered(ManualExpected, inlet_p, power)
        THEN EndsWith(calc[1], " (CRITICAL)")
        ELSE EndsWith(calc[1], " (OK)")

\* C3: every reading, generated or manual, has efficiency
\* flow_rate * (outlet_pressure - inlet_pressure) / power when power /= 0 and
\* 0 when power = 0, never an undefined or infinite one; a manual input with
\* power 0 shows efficiency 0 and CRITICAL.
C3_EfficiencyDefined ==
    /\ \A i \in DOMAIN data :
          LET r == data[i]
          IN  /\ IsFinite(r.Efficiency)
              /\ r.Power = 0 => r.Efficiency = [num |-> 0, den |-> 1]
              /\ r.Power # 0 =>
                   r.Efficiency = Frac(r.FlowRate * (r.OutletPressure - r.InletPressure),
                                       10 * r.Power)
    /\ calc # <<>> =>
          /\ StartsWith(calc[1], "Calculated Efficiency: " \o Fmt2f(ManualExpected) \o " (")
          /\ power = 0 => calc[1] = "Calculated Efficiency: 0.00 (CRITICAL)"

\* the ordered predicate table of the query engine, on the lower-cased question
RuleHolds(i, q) ==
    CASE i = 1 -> In("efficiency", q) /\ In("what", q)
      [] i = 2 -> In("why", q) \/ In("cause", q)
      [] i = 3 -> In("first", q)
      [] i = 4 -> In("last", q)
      [] i = 5 -> In("pressure", q)
      [] i = 6 -> In("flow", q)
      [] i = 7 -> In("power", q)
      [] i = 8 -> In("time", q)
      [] i = 9 -> In("critical", q) \/ In("alert", q)
      [] i = 10 -> In("pump", q) \/ In("compressor", q)
      [] i = 11 -> In("improve", q)

\* the lowest-numbered rule that holds, 12 (the fallback) when none does
FirstRule(q) ==
    IF \E i \in 1..11 : RuleHolds(i, q)
    THEN CHOOSE i \in 1..11 : RuleHolds(i, q) /\ \A j \in 1..(i - 1) : ~RuleHolds(j, q)
    ELSE 12

\* a is a response of rule i
AnswersRule(i, a) ==
    CASE i = 1 -> StartsWith(a, "The current efficiency is ")
      [] i = 2 -> \/ StartsWith(a, "Efficiency is low likely due to ")
                  \/ a = "Efficiency is within normal range. No cause for concern."
      [] i = 3 -> \/ /\ StartsWith(a, "The pump/compressor status was critical at [")
                     /\ EndsWith(a, "] from top 50 row.")
                  \/ a = NotFoundText
      [] i = 4 -> \/ /\ StartsWith(a, "The pump/compressor status was critical at [")
                     /\ EndsWith(a, "] from last 50 row.")
                  \/ a = NotFoundText
      [] i = 5 -> StartsWith(a, "Inlet Pressure: ")
      [] i = 6 -> StartsWith(a, "Flow rate is ")
      [] i = 7 -> StartsWith(a, "Power consumption is ")
      [] i = 8 -> StartsWith(a, "The record timestamp is ")
      [] i = 9 -> StartsWith(a, "System status: ")
      [] i = 10 -> StartsWith(a, "This system operates as a ")
      [] i = 11 -> a = "Reduce power usage or increase pressure delta to improve efficiency."
      [] i = 12 -> a = FallbackText

\* C4: the answer is the response of the lowest-numbered rule of the table
\* that holds of the lower-cased question, the fallback only when none holds.
C4_FirstMatchWins ==
    answer # <<>> => AnswersRule(FirstRule(lower(user_question)), answer[1])

\* "why is efficiency critical" holds of rules 2 and 9 and gets rule 2's answer
C4_Witness ==
    /\ user_question = "why is efficiency critical"
    /\ RuleHolds(2, user_question) /\ RuleHolds(9, user_question)
    /\ answer # <<>>
    /\ AnswersRule(2, answer[1])
    /\ ~AnswersRule(9, answer[1])

\* C5: for every question, focus Reading and Dataset the function returns a
\* non-empty string, and the fallback message when no keyword predicate holds.
C5_Total ==
    answer # <<>> =>
        /\ Len(answer[1]) > 0
        /\ FirstRule(lower(user_question)) = 12 => answer[1] = FallbackText

\* the empty question is answered by the fallback message
C5_Witness == user_question = "" /\ answer = << FallbackText >>

\* C6: the explanation is a function of efficiency alone, with the buckets
\* e < 0.3 (critical), 0.3 <= e < 0.5 (low), e > 2.0 (high) and
\* 0.5 <= e <= 2.0 (moderate); 0.3 is low, 0.5 and 2.0 are moderate.
C6_Buckets ==
    /\ \A i \in DOMAIN data :
          LET e == data[i].Efficiency
              x == data[i].LLMExplanation
          IN  /\ Lt(e, 3) => x = CriticalText
              /\ Ge(e, 3) /\ Lt(e, 5) => x = LowText
              /\ Gt(e, 20) => x = HighText
              /\ Ge(e, 5) /\ Le(e, 20) => x = ModerateText
              /\ e = [num |-> 3, den |-> 10] => x = LowText
              /\ e = [num |-> 1, den |-> 2] => x = ModerateText
              /\ e = [num |-> 2, den |-> 1] => x = ModerateText
    /\ \A i, j \in DOMAIN data :
          data[i].Efficiency = data[j].Efficiency
             => data[i].LLMExplanation = data[j].LLMExplanation

\* a Dataset with efficiencies 0.3, 0.5 and 2.0, one below 0.3, one above 2.0,
\* and two Readings of equal efficiency and different status
C6_Witness ==
    /\ \E i \in DOMAIN data :
          data[i].Efficiency = [num |-> 3, den |-> 10] /\ data[i].LLMExplanation = LowText
    /\ \E i \in DOMAIN data :
          data[i].Efficiency = [num |-> 1, den |-> 2] /\ data[i].LLMExplanation = ModerateText
    /\ \E i \in DOMAIN data :
          data[i].Efficiency = [num |-> 2, den |-> 1] /\ data[i].LLMExplanation = ModerateText
    /\ \E i \in DOMAIN data :
          data[i].Efficiency = [num |-> 1, den |-> 4] /\ data[i].LLMExplanation = CriticalText
    /\ \E i \in DOMAIN data :
          data[i].Efficiency = [num |-> 7, den |-> 2] /\ data[i].LLMExplanation = HighText
    /\ \E i, j \in DOMAIN data :
          /\ data[i].Efficiency = data[j].Efficiency
          /\ data[i].CriticalFlag # data[j].CriticalFlag

\* the timestamps of the CRITICAL entries lo..hi of the Dataset, in its order
RECURSIVE CriticalBetween(_, _)
CriticalBetween(lo, hi) ==
    IF lo > hi THEN <<>>
    ELSE (IF data[lo].CriticalFlag = "CRITICAL" THEN << data[lo].Timestamp >> ELSE <<>>)
         \o CriticalBetween(lo + 1, hi)

\* the answer of the first/last rule over the entries lo..hi
WindowAnswer(lo, hi, tail_text) ==
    IF CriticalBetween(lo, hi) = <<>> THEN NotFoundText
    ELSE "The pump/compressor status was critical at "
         \o StrList(CriticalBetween(lo, hi)) \o tail_text

\* C7: an answer of the 'first' (the 'last') rule is decided by the Dataset
\* alone: it lists the timestamps of exactly the CRITICAL entries among the
\* first 50 (the last 50) entries, in dataset order, or says none was found;
\* the window of a Dataset of fewer than 50 entries is the whole Dataset.
C7_Window ==
    answer # <<>> =>
        LET r == FirstRule(lower(user_question))
            n == Len(data)
        IN  /\ r = 3 => answer[1] = WindowAnswer(1, IF n < 50 THEN n ELSE 50,
                                                 " from top 50 row.")
            /\ r = 4 => answer[1] = WindowAnswer(IF n < 50 THEN 1 ELSE n - 49, n,
                                                 " from last 50 row.")

\* 100 entries, CRITICAL at rows 1, 50 and 51: the 'first' answer lists rows 1
\* and 50 and leaves row 51 out
C7_Witness ==
    /\ Len(data) = 100
    /\ { i \in DOMAIN data : data[i].CriticalFlag = "CRITICAL" } = {1, 50, 51}
    /\ FirstRule(lower(user_question)) = 3
    /\ answer = << "The pump/compressor status was critical at "
                   \o "[Timestamp('0'), Timestamp('-490')] from top 50 row." >>

\* C8: within a session the Dataset, once generated, never changes: every
\* interaction leaves the Readings that are displayed, queried and exported
\* as they were.
C8_DatasetImmutable == [][data # <<>> => data' = data]_vars

\* C9: timestamps strictly decrease as the row index grows, and a question is
\* answered against the Reading of the greatest timestamp, row 0.
C9_MostRecentFirst ==
    /\ \A i, j \in DOMAIN data : i < j => data[i].Timestamp > data[j].Timestamp
    /\ (answer # <<>>) <=> (focus # <<>>)
    /\ focus # <<>> =>
          /\ focus[1] = data[1]
          /\ \A i \in DOMAIN data : focus[1].Timestamp >= data[i].Timestamp

\* a question answered over a Dataset during whose generation the minute turned
C9_Witness ==
    /\ user_question # "" /\ answer # <<>> /\ focus # <<>>
    /\ data[51].Timestamp = data[50].Timestamp - 9
    /\ focus[1].Timestamp = now

\* C10: a Reading whose explanation is the 'CRITICAL: Very low efficiency'
\* text has status CRITICAL (the converse does not hold).
C10_CriticalTextImpliesStatus ==
    \A i \in DOMAIN data :
        data[i].LLMExplanation = CriticalText => data[i].CriticalFlag = "CRITICAL"

\* a Dataset with a CRITICAL explanation and with CRITICAL Readings whose
\* explanations are the low, the moderate and the high one
C10_Witness ==
    /\ \E i \in DOMAIN data :
          data[i].LLMExplanation = CriticalText /\ data[i].CriticalFlag = "CRITICAL"
    /\ \A x \in {LowText, ModerateText, HighText} :
          \E i \in DOMAIN data :
              data[i].LLMExplanation = x /\ data[i].CriticalFlag = "CRITICAL"

====
